---------------------------- MODULE Spec2Model ----------------------------
(***************************************************************************)
(* A model of the request handlers of TWLight/resources/views.py: the      *)
(* partner detail page, the waitlist toggle and the suggestion handlers,   *)
(* over the relational tables they read and write.                         *)
(*                                                                         *)
(* The tables are the variables.  Every handler is one action that runs    *)
(* the whole request and leaves its outcome in `response`; only the        *)
(* waitlist toggle is also modelled in two steps (load, save), to study    *)
(* concurrent requests.                                                    *)
(***************************************************************************)
EXTENDS Integers, Sequences, FiniteSets

(***************************************************************************)
(* Bounds of the model.                                                    *)
(***************************************************************************)
MaxStreams == 2        \* Stream rows in the database
MaxAuths == 2          \* Authorization rows in the database
MaxApps == 2           \* Application rows in the database
MaxSuggestions == 2    \* Suggestion rows ever created
NumRequests == 2       \* concurrent waitlist-toggle requests

(***************************************************************************)
(* The users.  The user table is never written by views.py, so it is a     *)
(* fixed population with one user of each kind the handlers distinguish.   *)
(***************************************************************************)
Anonymous == "AnonymousUser"
DbUsers == {"reader", "editor", "coordinator", "staff"}
Requesters == DbUsers \cup {Anonymous}

\* Users that have an Editor row (user.editor exists).
Editors == {"editor", "coordinator"}
\* Users that pass the CoordinatorsOnly test.
Coordinators == {"coordinator"}
\* Users with is_staff set.
Staff == {"staff"}

is_authenticated(user) == user # Anonymous
is_staff(user) == user \in Staff
has_editor(user) == user \in Editors

(***************************************************************************)
(* Partners.                                                               *)
(***************************************************************************)
Partners == {"p1", "p2"}
NoSuchPk == "p404"
PartnerPks == Partners \cup {NoSuchPk}

AVAILABLE == "AVAILABLE"
NOT_AVAILABLE == "NOT_AVAILABLE"
WAITLIST == "WAITLIST"
PartnerStatuses == {AVAILABLE, NOT_AVAILABLE, WAITLIST}

BUNDLE == "BUNDLE"
EMAIL == "EMAIL"
AuthorizationMethods == {EMAIL, BUNDLE}

(***************************************************************************)
(* Applications.                                                           *)
(***************************************************************************)
PENDING == "PENDING"
QUESTION == "QUESTION"
APPROVED == "APPROVED"
NOT_APPROVED == "NOT_APPROVED"
SENT == "SENT"
ApplicationStatuses == {PENDING, QUESTION, APPROVED, NOT_APPROVED, SENT}
DaysOpen == {1, 3}

(***************************************************************************)
(* Message levels and outcomes of a request.                               *)
(***************************************************************************)
None == "None"
NoData == <<>>
OK == "200"
REDIRECT == "302"
Http404 == "Http404"
PermissionDenied == "PermissionDenied"
AttributeError == "AttributeError"
LoginRedirect == "302 login"

VARIABLES
    partner_status,        \* Partner.status of every Partner row
    partner_method,        \* Partner.authorization_method
    stream_rows,           \* number of Stream rows of every partner
    authorization_rows,    \* number of Authorization rows per (user, partner)
    application_rows,      \* the Application table: row -> number of copies
    suggestion_rows,       \* the Suggestion table: id -> row; a row is its
                           \* upvoted_users (the text fields and the author
                           \* are written once and read by no handler)
    next_suggestion_id,    \* the table's auto-increment counter
    toggle_requests,       \* waitlist-toggle requests in flight
    history,               \* what the last writes were: initial statuses, last saves, last upvotes
    response               \* the outcome of the last request

vars == <<partner_status, partner_method, stream_rows, authorization_rows,
          application_rows, suggestion_rows, next_suggestion_id,
          toggle_requests, history, response>>

partner_tables == <<partner_status, partner_method, stream_rows,
                    authorization_rows, application_rows>>
suggestion_tables == <<suggestion_rows, next_suggestion_id>>

RECURSIVE SumOver(_, _)
SumOver(f, keys) ==
    IF keys = {} THEN 0
    ELSE LET k == CHOOSE x \in keys : TRUE
         IN f[k] + SumOver(f, keys \ {k})

(***************************************************************************)
(* Querysets.                                                              *)
(***************************************************************************)
\* Partner.objects: the default manager, which hides NOT_AVAILABLE partners.
Partner_objects == {p \in Partners : partner_status[p] # NOT_AVAILABLE}
\* Partner.even_not_available: every partner.
Partner_even_not_available == Partners

\* A queryset is a bag of rows (row -> number of copies): no handler orders
\* the rows it counts or hands to get_median.
\* The queryset restricted to the rows of `kept`.
Filter(queryset, kept) ==
    [row \in kept \cap DOMAIN queryset |-> queryset[row]]

Count(queryset) == SumOver(queryset, DOMAIN queryset)

RECURSIVE Repeat(_, _)
Repeat(value, n) == IF n = 0 THEN <<>> ELSE <<value>> \o Repeat(value, n - 1)

\* values_list("days_open", flat=True), in the order the database picks.
RECURSIVE days_open_list(_)
days_open_list(queryset) ==
    IF DOMAIN queryset = {} THEN <<>>
    ELSE LET row == CHOOSE r \in DOMAIN queryset : TRUE
         IN Repeat(row.days_open, queryset[row])
            \o days_open_list(Filter(queryset, DOMAIN queryset \ {row}))

(***************************************************************************)
(* TWLight.graphs.helpers.get_median: the median of a list of numbers,     *)
(* the mean of the two middle values (rounded down) for an even length.    *)
(***************************************************************************)
RECURSIVE Insert(_, _)
Insert(x, sorted) ==
    IF sorted = <<>> THEN <<x>>
    ELSE IF x <= Head(sorted) THEN <<x>> \o sorted
    ELSE <<Head(sorted)>> \o Insert(x, Tail(sorted))

RECURSIVE SortSeq(_)
SortSeq(values) ==
    IF values = <<>> THEN <<>> ELSE Insert(Head(values), SortSeq(Tail(values)))

get_median(values_list) ==
    LET sorted == SortSeq(values_list)
        n == Len(sorted)
    IN IF n % 2 = 1 THEN sorted[(n + 1) \div 2]
       ELSE (sorted[n \div 2] + sorted[n \div 2 + 1]) \div 2

(***************************************************************************)
(* PartnersDetailView                                                      *)
(***************************************************************************)
\* get_queryset: staff also see the partners that are not available.
PartnersDetailView_get_queryset(user) ==
    IF is_staff(user) THEN Partner_even_not_available ELSE Partner_objects

\* Application.objects.filter(partner=partner).  (views.py line 96, 122)
ApplicationsOfPartner(partner) ==
    Filter(application_rows,
           {row \in DOMAIN application_rows : row.partner = partner})

\* End states that leave out SENT.
application_end_states_without_sent == {APPROVED, NOT_APPROVED}

application_end_states == {APPROVED, NOT_APPROVED, SENT}

\* .filter(partner=partner, status__in=application_end_states)
\* .exclude(imported=True).values_list("days_open", flat=True)
partner_app_time(partner) ==
    days_open_list(Filter(ApplicationsOfPartner(partner),
                          {row \in DOMAIN application_rows :
                              /\ row.status \in application_end_states
                              /\ ~row.imported}))

\* context["median_days"]: <<m>> for the number m, NoData for None.
median_days(partner) ==
    IF Len(partner_app_time(partner)) > 0
    THEN <<get_median(partner_app_time(partner))>>
    ELSE NoData

\* Application.objects.filter(status__in=[PENDING, QUESTION, APPROVED],
\*     partner=partner, editor=user.editor).count()
num_apps(partner, user) ==
    Count(Filter(ApplicationsOfPartner(partner),
                 {row \in DOMAIN application_rows :
                     /\ row.status \in {PENDING, QUESTION, APPROVED}
                     /\ row.editor = user}))

\* Authorization.objects.filter(partner=partner, user=user).count()
num_authorizations(partner, user) ==
    IF <<user, partner>> \in DOMAIN authorization_rows
    THEN authorization_rows[<<user, partner>>] ELSE 0

\* Authorization.objects.filter(partner=partner).count()
total_users(partner) ==
    SumOver(authorization_rows, {key \in DOMAIN authorization_rows : key[2] = partner})

\* A get() that answers with the first row when several match.
Authorization_get_first(partner, user) ==
    IF num_authorizations(partner, user) >= 1 THEN "Authorization"
    ELSE "DoesNotExist"

\* Authorization.objects.get(partner=partner, user=user): the row, or one of
\* the two exceptions of QuerySet.get.
Authorization_get(partner, user) ==
    CASE num_authorizations(partner, user) = 1 -> "Authorization"
      [] num_authorizations(partner, user) = 0 -> "DoesNotExist"
      [] OTHER -> "MultipleObjectsReturned"

\* The condition under which the handler looks at the user's authorizations.
ChecksAuthorizations(partner, user) ==
    is_authenticated(user) /\ partner_method[partner] # BUNDLE

\* At least as many authorizations as streams.
AllStreamsAuthorized_at_least(partner, user) ==
    num_authorizations(partner, user) >= stream_rows[partner]

\* num_authorizations == partner_streams.count()
AllStreamsAuthorized(partner, user) ==
    num_authorizations(partner, user) = stream_rows[partner]

\* No context: the handler ended before it built one.
EmptyContext == <<>>

Outcome(result, messages, logged, context) ==
    [result |-> result, messages |-> messages, logged |-> logged,
     context |-> context]

\* The no-stream branch of get_context_data, lines 127-148.
NoStreamBranch(partner, user, messages, context) ==
    CASE Authorization_get(partner, user) = "Authorization" ->
            Outcome(OK, messages, <<>>, [context EXCEPT !.apply = FALSE])
      [] Authorization_get(partner, user) = "DoesNotExist" ->
            Outcome(OK, messages, <<>>, context)
      [] OTHER ->
            \* logger.info(...) writes the record and returns None; .format
            \* is then looked up on None, which raises AttributeError before
            \* messages.add_message is reached.
            Outcome(AttributeError, messages, <<"INFO">>, context)

\* The stream branch, lines 149-155.
StreamBranch(partner, user, messages, context) ==
    Outcome(OK, messages, <<>>,
            IF AllStreamsAuthorized(partner, user)
            THEN [context EXCEPT !.apply = FALSE] ELSE context)

\* get(): get_object() over get_queryset(), then get_context_data.  The
\* context of the outcome is the context as it stood when the handler
\* returned or raised.
PartnersDetailView_get(user, pk) ==
    IF pk \notin PartnersDetailView_get_queryset(user)
    THEN Outcome(Http404, <<>>, <<>>, EmptyContext)
    ELSE IF partner_status[pk] = NOT_AVAILABLE /\ ~is_staff(user)
    THEN Outcome("AssertionError", <<>>, <<>>, EmptyContext)
    ELSE
      LET messages == IF partner_status[pk] = NOT_AVAILABLE
                      THEN <<"WARNING">> ELSE <<>>
          context == [total_users |-> total_users(pk),
                      median_days |-> median_days(pk),
                      apply |-> TRUE,
                      has_open_apps |-> FALSE]
      IN IF ~ChecksAuthorizations(pk, user)
         THEN Outcome(OK, messages, <<>>, context)
         ELSE IF ~has_editor(user)
         THEN \* user.editor raises RelatedObjectDoesNotExist
              Outcome("RelatedObjectDoesNotExist", messages, <<>>, context)
         ELSE LET context2 == [context EXCEPT
                                 !.has_open_apps = num_apps(pk, user) > 0]
              IN IF stream_rows[pk] = 0
                 THEN NoStreamBranch(pk, user, messages, context2)
                 ELSE StreamBranch(pk, user, messages, context2)

Request(view, user, pk) == [view |-> view, user |-> user, pk |-> pk]
NoResponse == [request |-> Request(None, None, None),
               outcome |-> Outcome(None, <<>>, <<>>, EmptyContext)]

PartnersDetailView(user, pk) ==
    /\ response' = [request |-> Request("PartnersDetailView", user, pk),
                    outcome |-> PartnersDetailView_get(user, pk)]
    /\ UNCHANGED <<partner_tables, suggestion_tables, toggle_requests, history>>

(***************************************************************************)
(* Initial states.                                                         *)
(***************************************************************************)
\* Authorizations are held by editors.
AuthorizationKeys == Editors \X Partners
NoAuthorizations == [key \in AuthorizationKeys |-> 0]
\* Authorization tables of at most MaxAuths rows.
AuthorizationTables ==
    {t \in [AuthorizationKeys -> 0..MaxAuths] :
        SumOver(t, AuthorizationKeys) <= MaxAuths}
\* Stream tables of at most MaxStreams rows.
StreamTables ==
    {t \in [Partners -> 0..MaxStreams] : SumOver(t, Partners) <= MaxStreams}
\* Application tables of at most MaxApps rows.
ApplicationRows == [partner : Partners, editor : {"editor"},
                    status : ApplicationStatuses, imported : BOOLEAN,
                    days_open : DaysOpen]
RECURSIVE BagOfSeq(_)
BagOfSeq(rows) ==
    IF rows = <<>> THEN <<>>
    ELSE LET rest == BagOfSeq(Tail(rows))
             row == Head(rows)
         IN [r \in DOMAIN rest \cup {row} |->
                (IF r \in DOMAIN rest THEN rest[r] ELSE 0)
                + (IF r = row THEN 1 ELSE 0)]
ApplicationTables ==
    {BagOfSeq(rows) : rows \in UNION {[1..n -> ApplicationRows] : n \in 0..MaxApps}}

InitRest ==
    /\ suggestion_rows = <<>>
    /\ next_suggestion_id = 1
    /\ toggle_requests = <<>>
    /\ history = [original_status |-> partner_status, saves |-> <<>>,
                  upvotes |-> <<>>]
    /\ response = NoResponse

\* Databases that differ in partners, streams and authorizations.
InitAuthorizations ==
    /\ partner_status \in [Partners -> PartnerStatuses]
    /\ partner_method \in [Partners -> AuthorizationMethods]
    /\ stream_rows \in StreamTables
    /\ authorization_rows \in AuthorizationTables
    /\ application_rows = BagOfSeq(<<>>)
    /\ InitRest

\* Databases that differ in applications.
InitApplications ==
    /\ partner_status = [p \in Partners |-> AVAILABLE]
    /\ partner_method = [p \in Partners |-> EMAIL]
    /\ stream_rows = [p \in Partners |-> 0]
    /\ authorization_rows = NoAuthorizations
    /\ application_rows \in ApplicationTables
    /\ InitRest

DetailNext == \E user \in Requesters, pk \in PartnerPks : PartnersDetailView(user, pk)

ApplySpec == InitAuthorizations /\ [][DetailNext]_vars
MedianSpec == InitApplications /\ [][DetailNext]_vars

(***************************************************************************)
(* Properties of the partner detail page.                                  *)
(***************************************************************************)
DetailResponse == response.request.view = "PartnersDetailView"
\* The detail page returned a context.
DetailReturned == DetailResponse /\ response.outcome.result = OK
\* The Authorization rows of the requesting user for the requested partner.
RequesterAuthorizations ==
    LET key == <<response.request.user, response.request.pk>>
    IN IF key \in DOMAIN authorization_rows THEN authorization_rows[key] ELSE 0
RequestedStreams == stream_rows[response.request.pk]
RequesterIsChecked ==
    /\ response.request.user # Anonymous
    /\ partner_method[response.request.pk] # BUNDLE

C2_AsClaimed ==
    (DetailReturned /\ RequestedStreams > 0)
        => (response.outcome.context.apply = FALSE
              <=> RequesterAuthorizations = RequestedStreams)

\* C2 amended: when the detail page of a partner with N > 0 streams returns
\* a context, context["apply"] is False if and only if the user is
\* authenticated, the partner is not a BUNDLE partner and the user has N
\* Authorizations for it; otherwise it is True.
C2_ApplyWithStreams ==
    (DetailReturned /\ RequestedStreams > 0)
        => /\ response.outcome.context.apply \in BOOLEAN
           /\ response.outcome.context.apply = FALSE
                <=> (RequesterIsChecked
                     /\ RequesterAuthorizations = RequestedStreams)

C2_Witness ==
    /\ DetailReturned
    /\ RequestedStreams > 0
    /\ RequesterAuthorizations = RequestedStreams
    /\ response.outcome.context.apply = FALSE

\* C6 as stated: when an authenticated user has more than one Authorization
\* for a non-BUNDLE partner without streams that the user may see, the
\* condition is logged, an ERROR message is added, and get_context_data
\* returns the context.
C6_AsClaimed ==
    (/\ DetailResponse
     /\ response.request.pk \in PartnersDetailView_get_queryset(response.request.user)
     /\ RequesterIsChecked
     /\ RequestedStreams = 0
     /\ RequesterAuthorizations > 1)
        => /\ response.outcome.logged # <<>>
           /\ \E i \in DOMAIN response.outcome.messages :
                 response.outcome.messages[i] = "ERROR"
           /\ response.outcome.result = OK

\* The applications of the requested partner that are not imported and are
\* APPROVED, NOT_APPROVED or SENT.
RequestedClosedApplications ==
    Filter(application_rows,
           {row \in DOMAIN application_rows :
               /\ row.partner = response.request.pk
               /\ row.status \in {"APPROVED", "NOT_APPROVED", "SENT"}
               /\ row.imported = FALSE})

\* C9: context["median_days"] is None exactly when the partner has no
\* non-imported application that is APPROVED, NOT_APPROVED or SENT, and is
\* otherwise the median of days_open over exactly those applications.
C9_MedianDays ==
    (DetailResponse /\ response.outcome.context # EmptyContext)
        => /\ response.outcome.context.median_days = NoData
                <=> DOMAIN RequestedClosedApplications = {}
           /\ DOMAIN RequestedClosedApplications # {}
                => response.outcome.context.median_days
                     = <<get_median(days_open_list(RequestedClosedApplications))>>

\* No data, for a partner that has applications, none of which counts.
C9_Witness ==
    /\ DetailReturned
    /\ response.outcome.context.median_days = NoData
    /\ \E row \in DOMAIN application_rows :
          row.partner = response.request.pk /\ row.imported
    /\ \E row \in DOMAIN application_rows :
          row.partner = response.request.pk /\ row.status = PENDING

(***************************************************************************)
(* PartnersToggleWaitlistView                                              *)
(***************************************************************************)
\* view_mixins.CoordinatorsOnly and EditorsOnly: who may use the view.
CoordinatorsOnly(user) == user \in Coordinators
EditorsOnly(user) == user \in Editors

\* A toggle that always waitlists.
ToggledStatus_always_waitlist(status) == WAITLIST

\* Lines 177-184: the status the handler sets on the partner it loaded.
ToggledStatus(status) == IF status = AVAILABLE THEN WAITLIST ELSE AVAILABLE

\* A lookup through the manager that does not hide NOT_AVAILABLE partners.
ToggleQueryset_even_not_available == Partner_even_not_available

\* Partner.objects, the queryset of line 171.
ToggleQueryset == Partner_objects

\* Lines 166-184: the permission test, the lookup, the assertion and the
\* flip of the in-memory partner.  "loaded" means the partner is ready to
\* be saved with `status`.
PartnersToggleWaitlistView_load(user, pk) ==
    IF ~CoordinatorsOnly(user)
    THEN [result |-> PermissionDenied, status |-> None]
    ELSE IF pk \notin ToggleQueryset
    THEN [result |-> Http404, status |-> None]
    ELSE IF partner_status[pk] \notin {AVAILABLE, WAITLIST}
    THEN [result |-> "AssertionError", status |-> None]
    ELSE [result |-> "loaded", status |-> ToggledStatus(partner_status[pk])]

\* The last two entries of a log.
LastTwo(log) == IF Len(log) <= 2 THEN log ELSE SubSeq(log, Len(log) - 1, Len(log))

\* post(), run from its first line to its last without interruption.
PartnersToggleWaitlistView_post(user, pk) ==
    LET loaded == PartnersToggleWaitlistView_load(user, pk)
        request == Request("PartnersToggleWaitlistView", user, pk)
    IN /\ IF loaded.result = "loaded"
          THEN /\ partner_status' = [partner_status EXCEPT ![pk] = loaded.status]
               /\ history' = [history EXCEPT !.saves =
                     LastTwo(Append(@, [pk |-> pk, before |-> partner_status[pk]]))]
               /\ response' = [request |-> request,
                               outcome |-> Outcome(REDIRECT, <<"SUCCESS">>, <<>>,
                                                   EmptyContext)]
          ELSE /\ UNCHANGED <<partner_status, history>>
               /\ response' = [request |-> request,
                               outcome |-> Outcome(loaded.result, <<>>, <<>>,
                                                   EmptyContext)]
       /\ UNCHANGED <<partner_method, stream_rows, authorization_rows,
                      application_rows, suggestion_tables, toggle_requests>>

\* Databases that differ in the partners' statuses.
InitPartners ==
    /\ partner_status \in [Partners -> PartnerStatuses]
    /\ partner_method = [p \in Partners |-> EMAIL]
    /\ stream_rows = [p \in Partners |-> 0]
    /\ authorization_rows = NoAuthorizations
    /\ application_rows = BagOfSeq(<<>>)
    /\ InitRest

ToggleNext ==
    \E user \in Requesters, pk \in PartnerPks : PartnersToggleWaitlistView_post(user, pk)

ToggleSpec == InitPartners /\ [][ToggleNext]_vars

(***************************************************************************)
(* Concurrent toggles: each request loads the partner in one step and      *)
(* saves it in a later one; the steps of different requests interleave.    *)
(***************************************************************************)
RequestIds == 1..NumRequests
NewRequest == [pc |-> "new", user |-> None, pk |-> None, status |-> None,
               seen |-> 0, result |-> None]

\* The requests that have saved partner pk.
SavedRequests(pk) ==
    {r \in DOMAIN toggle_requests :
        /\ toggle_requests[r].pc = "done"
        /\ toggle_requests[r].result = REDIRECT
        /\ toggle_requests[r].pk = pk}

\* A save that computes the flip from the row as it is in the database.
SavedStatus_from_database(r) ==
    ToggledStatus(partner_status[toggle_requests[r].pk])

\* partner.save() writes the status of the in-memory partner.
SavedStatus(r) == toggle_requests[r].status

\* Lines 166-184 of request r.
ToggleLoad(r, user, pk) ==
    LET loaded == PartnersToggleWaitlistView_load(user, pk)
    IN /\ toggle_requests[r].pc = "new"
       /\ toggle_requests' = [toggle_requests EXCEPT ![r] =
             [pc |-> IF loaded.result = "loaded" THEN "loaded" ELSE "done",
              user |-> user, pk |-> pk, status |-> loaded.status,
              seen |-> Cardinality(SavedRequests(pk)),
              result |-> loaded.result]]
       /\ UNCHANGED <<partner_tables, suggestion_tables, history, response>>

\* Lines 186-189 of request r.
ToggleSave(r) ==
    /\ toggle_requests[r].pc = "loaded"
    /\ partner_status' = [partner_status EXCEPT
                            ![toggle_requests[r].pk] = SavedStatus(r)]
    /\ toggle_requests' = [toggle_requests EXCEPT
                            ![r].pc = "done", ![r].result = REDIRECT]
    /\ UNCHANGED <<partner_method, stream_rows, authorization_rows,
                   application_rows, suggestion_tables, history, response>>

InitRace ==
    /\ partner_status \in [Partners -> PartnerStatuses]
    /\ partner_method = [p \in Partners |-> EMAIL]
    /\ stream_rows = [p \in Partners |-> 0]
    /\ authorization_rows = NoAuthorizations
    /\ application_rows = BagOfSeq(<<>>)
    /\ suggestion_rows = <<>>
    /\ next_suggestion_id = 1
    /\ toggle_requests = [r \in RequestIds |-> NewRequest]
    /\ history = [original_status |-> partner_status, saves |-> <<>>,
                  upvotes |-> <<>>]
    /\ response = NoResponse

RaceNext ==
    \E r \in RequestIds :
        \/ \E user \in Requesters, pk \in PartnerPks : ToggleLoad(r, user, pk)
        \/ ToggleSave(r)

RaceSpec == InitRace /\ [][RaceNext]_vars

(***************************************************************************)
(* Properties of the waitlist toggle.                                      *)
(***************************************************************************)
\* C3: two successive toggles of the same partner, with no other write in
\* between, leave the partner's status as it was before the first; each
\* toggle turns AVAILABLE into WAITLIST and WAITLIST into AVAILABLE.
C3_ToggleTwice ==
    /\ Len(history.saves) >= 1 =>
          LET last == history.saves[Len(history.saves)]
          IN /\ last.before = "AVAILABLE" => partner_status[last.pk] = "WAITLIST"
             /\ last.before = "WAITLIST" => partner_status[last.pk] = "AVAILABLE"
    /\ (Len(history.saves) = 2 /\ history.saves[1].pk = history.saves[2].pk)
          => partner_status[history.saves[1].pk] = history.saves[1].before

C3_Witness ==
    /\ Len(history.saves) = 2
    /\ history.saves[1].pk = history.saves[2].pk
    /\ response.request.view = "PartnersToggleWaitlistView"
    /\ response.outcome.result = REDIRECT
    /\ response.request.pk = history.saves[2].pk

\* C7: a toggle request for a partner id that the default manager does not
\* hold (no such partner, or a NOT_AVAILABLE one) is answered not-found and
\* writes nothing; no toggle makes a partner NOT_AVAILABLE or takes one out
\* of NOT_AVAILABLE, so the NOT_AVAILABLE partners stay the initial ones.
C7_NotAvailableOutOfReach ==
    [][/\ \A p \in Partners :
            /\ (partner_status[p] = "NOT_AVAILABLE")
                  <=> (partner_status'[p] = "NOT_AVAILABLE")
            /\ (history.original_status[p] = "NOT_AVAILABLE")
                  <=> (partner_status'[p] = "NOT_AVAILABLE")
       /\ (/\ response'.request.view = "PartnersToggleWaitlistView"
           /\ response'.request.user \in Coordinators
           /\ \/ response'.request.pk \notin Partners
              \/ partner_status[response'.request.pk] = "NOT_AVAILABLE")
            => /\ response'.outcome.result = Http404
               /\ partner_status' = partner_status]_vars

C7_Witness ==
    /\ response.request.view = "PartnersToggleWaitlistView"
    /\ response.request.user \in Coordinators
    /\ response.request.pk \in Partners
    /\ partner_status[response.request.pk] = NOT_AVAILABLE
    /\ response.outcome.result = Http404
    /\ Len(history.saves) >= 1

\* Two requests for the same partner that both loaded it before either saved.
Raced(r1, r2) ==
    /\ r1 # r2
    /\ toggle_requests[r1].pk = toggle_requests[r2].pk
    /\ r1 \in SavedRequests(toggle_requests[r1].pk)
    /\ r2 \in SavedRequests(toggle_requests[r2].pk)
    /\ toggle_requests[r1].seen = toggle_requests[r2].seen

\* C10: two toggle requests for the same partner that both read its status
\* before either saves write the same flipped value; when they are the only
\* writes, the partner ends flipped once, not restored.
C10_LastWriteWins ==
    \A r1, r2 \in RequestIds :
        Raced(r1, r2) =>
            LET pk == toggle_requests[r1].pk
            IN /\ toggle_requests[r1].status = toggle_requests[r2].status
               /\ SavedRequests(pk) = {r1, r2} =>
                     /\ partner_status[pk] # history.original_status[pk]
                     /\ partner_status[pk] =
                           IF history.original_status[pk] = "AVAILABLE"
                           THEN "WAITLIST" ELSE "AVAILABLE"

C10_Witness ==
    \E r1, r2 \in RequestIds :
        /\ Raced(r1, r2)
        /\ SavedRequests(toggle_requests[r1].pk) = {r1, r2}

(***************************************************************************)
(* The suggestion handlers.                                                *)
(***************************************************************************)
SuggestionPks == 1..MaxSuggestions

PostRequest(view, user, form_is_valid) ==
    [view |-> view, user |-> user, pk |-> None, form_is_valid |-> form_is_valid]

\* Suggestion.objects.all().annotate(total_upvoted_users=Count("upvoted_users"))
\* .order_by("-total_upvoted_users"); rows with equal counts in id order.
RECURSIVE OrderByUpvotes(_, _)
OrderByUpvotes(rows, ids) ==
    IF ids = {} THEN <<>>
    ELSE LET total(i) == Cardinality(rows[i].upvoted_users)
             top == CHOOSE i \in ids : \A j \in ids :
                        \/ total(i) > total(j)
                        \/ total(i) = total(j) /\ i <= j
         IN <<[id |-> top, total_upvoted_users |-> total(top)]>>
            \o OrderByUpvotes(rows, ids \ {top})

\* context["all_suggestions"] of PartnerSuggestionView.get_context_data:
\* the ordered rows, or NoData (None) when there is no suggestion.
all_suggestions(rows) ==
    IF Cardinality(DOMAIN rows) > 0 THEN OrderByUpvotes(rows, DOMAIN rows)
    ELSE NoData

\* GET of the suggestion page.
PartnerSuggestionView_get(user) ==
    /\ response' = [request |-> Request("PartnerSuggestionView.get", user, None),
                    outcome |-> Outcome(OK, <<>>, <<>>,
                        [all_suggestions |-> all_suggestions(suggestion_rows)])]
    /\ UNCHANGED <<partner_tables, suggestion_tables, toggle_requests, history>>

\* A check that lets every logged-in user through.
IsWikipediaEditor_any_user(user) == TRUE

\* assert self.request.user.editor: user.editor raises for a user without an
\* Editor row, and the handler catches it.
IsWikipediaEditor(user) == has_editor(user)

\* POST of the suggestion form: login_required, then FormView.post, which
\* calls form_valid for a valid form and renders the form again otherwise.
PartnerSuggestionView_post(user, form_is_valid) ==
    LET request == PostRequest("PartnerSuggestionView.post", user, form_is_valid)
        id == next_suggestion_id
    IN /\ UNCHANGED <<partner_tables, toggle_requests>>
       /\ IF ~is_authenticated(user)
          THEN /\ response' = [request |-> request,
                               outcome |-> Outcome(LoginRedirect, <<>>, <<>>,
                                                   EmptyContext)]
               /\ UNCHANGED <<suggestion_tables, history>>
          ELSE IF ~form_is_valid
          THEN /\ response' = [request |-> request,
                               outcome |-> Outcome(OK, <<>>, <<>>, EmptyContext)]
               /\ UNCHANGED <<suggestion_tables, history>>
          ELSE IF ~IsWikipediaEditor(user)
          THEN /\ response' = [request |-> request,
                               outcome |-> Outcome(PermissionDenied, <<"WARNING">>,
                                                   <<>>, EmptyContext)]
               /\ UNCHANGED <<suggestion_tables, history>>
          ELSE /\ id <= MaxSuggestions
               /\ suggestion_rows' =
                     [i \in DOMAIN suggestion_rows \cup {id} |->
                        IF i = id
                        THEN [upvoted_users |-> {user}]
                        ELSE suggestion_rows[i]]
               /\ next_suggestion_id' = id + 1
               /\ history' = [history EXCEPT !.upvotes = <<>>]
               /\ response' = [request |-> request,
                               outcome |-> Outcome(REDIRECT, <<"SUCCESS">>, <<>>,
                                                   EmptyContext)]

\* A delete that empties the table.
DeletedRows_all(rows, pk) == [i \in {} |-> rows[i]]

\* self.object.delete(): the table without the row.
DeletedRows(rows, pk) == [i \in DOMAIN rows \ {pk} |-> rows[i]]

\* SuggestionDeleteView.delete, behind CoordinatorsOnly and get_object().
SuggestionDeleteView_delete(user, pk) ==
    LET request == Request("SuggestionDeleteView", user, pk)
    IN /\ UNCHANGED <<partner_tables, next_suggestion_id, toggle_requests>>
       /\ IF ~CoordinatorsOnly(user)
          THEN /\ response' = [request |-> request,
                               outcome |-> Outcome(PermissionDenied, <<>>, <<>>,
                                                   EmptyContext)]
               /\ UNCHANGED <<suggestion_rows, history>>
          ELSE IF pk \notin DOMAIN suggestion_rows
          THEN /\ response' = [request |-> request,
                               outcome |-> Outcome(Http404, <<>>, <<>>, EmptyContext)]
               /\ UNCHANGED <<suggestion_rows, history>>
          ELSE /\ suggestion_rows' = DeletedRows(suggestion_rows, pk)
               /\ history' = [history EXCEPT !.upvotes = <<>>]
               /\ response' = [request |-> request,
                               outcome |-> Outcome(REDIRECT, <<"SUCCESS">>, <<>>,
                                                   EmptyContext)]

\* The log of upvotes when `user` upvotes `pk`: kept while the same user
\* upvotes the same suggestion, started afresh otherwise.
SameVoter(log, user, pk) ==
    IF log # <<>> /\ log[Len(log)].user = user /\ log[Len(log)].pk = pk
    THEN log ELSE <<>>

\* An upvote that never takes a vote back.
ToggledUpvoters_add_only(upvoted_users, user) == upvoted_users \cup {user}

\* Lines 317-321: remove the user when present, add the user when absent.
ToggledUpvoters(upvoted_users, user) ==
    IF ~is_authenticated(user) THEN upvoted_users
    ELSE IF user \in upvoted_users THEN upvoted_users \ {user}
    ELSE upvoted_users \cup {user}

\* SuggestionUpvoteView.get_redirect_url, behind EditorsOnly.
SuggestionUpvoteView(user, pk) ==
    LET request == Request("SuggestionUpvoteView", user, pk)
    IN /\ UNCHANGED <<partner_tables, next_suggestion_id, toggle_requests>>
       /\ IF ~EditorsOnly(user)
          THEN /\ response' = [request |-> request,
                               outcome |-> Outcome(PermissionDenied, <<>>, <<>>,
                                                   EmptyContext)]
               /\ UNCHANGED <<suggestion_rows, history>>
          ELSE IF pk \notin DOMAIN suggestion_rows
          THEN /\ response' = [request |-> request,
                               outcome |-> Outcome(Http404, <<>>, <<>>, EmptyContext)]
               /\ UNCHANGED <<suggestion_rows, history>>
          ELSE /\ suggestion_rows' = [suggestion_rows EXCEPT
                     ![pk].upvoted_users = ToggledUpvoters(@, user)]
               /\ history' = [history EXCEPT !.upvotes =
                     LastTwo(Append(SameVoter(@, user, pk),
                         [user |-> user, pk |-> pk,
                          before |-> suggestion_rows[pk].upvoted_users]))]
               /\ response' = [request |-> request,
                               outcome |-> Outcome(REDIRECT, <<>>, <<>>, EmptyContext)]

SuggestNext ==
    \/ \E user \in Requesters : PartnerSuggestionView_get(user)
    \/ \E user \in Requesters, form_is_valid \in BOOLEAN :
          PartnerSuggestionView_post(user, form_is_valid)
    \/ \E user \in Requesters, pk \in SuggestionPks :
          SuggestionDeleteView_delete(user, pk)
    \/ \E user \in Requesters, pk \in SuggestionPks :
          SuggestionUpvoteView(user, pk)

\* An empty Suggestion table.
InitSuggestions ==
    /\ partner_status = [p \in Partners |-> AVAILABLE]
    /\ partner_method = [p \in Partners |-> EMAIL]
    /\ stream_rows = [p \in Partners |-> 0]
    /\ authorization_rows = NoAuthorizations
    /\ application_rows = BagOfSeq(<<>>)
    /\ InitRest

SuggestSpec == InitSuggestions /\ [][SuggestNext]_vars

(***************************************************************************)
(* Properties of the suggestion handlers.                                  *)
(***************************************************************************)
\* C4: an upvote request flips the requesting user's membership in the
\* suggestion's upvoter set and nobody else's; two successive upvote
\* requests by the same user on the same suggestion leave the set, and so
\* the upvote count, as it was before the first.
C4_UpvoteTwice ==
    /\ Len(history.upvotes) >= 1 =>
          LET last == history.upvotes[Len(history.upvotes)]
              now == suggestion_rows[last.pk].upvoted_users
          IN /\ (last.user \in now) <=> (last.user \notin last.before)
             /\ now \ {last.user} = last.before \ {last.user}
    /\ (/\ Len(history.upvotes) = 2
        /\ history.upvotes[1].pk = history.upvotes[2].pk
        /\ history.upvotes[1].user = history.upvotes[2].user)
          => LET first == history.upvotes[1]
                 now == suggestion_rows[first.pk].upvoted_users
             IN /\ now = first.before
                /\ Cardinality(now) = Cardinality(first.before)

\* The same user has upvoted the same suggestion twice in a row, starting
\* from a set that held another user.
C4_Witness ==
    /\ Len(history.upvotes) = 2
    /\ history.upvotes[1].pk = history.upvotes[2].pk
    /\ history.upvotes[1].user = history.upvotes[2].user
    /\ history.upvotes[1].before \ {history.upvotes[1].user} # {}
    /\ response.request.view = "SuggestionUpvoteView"

\* C5: a valid submission of the suggestion form by a user without an Editor
\* row leaves the Suggestion table, upvoter sets included, as it was; a
\* logged-in such user gets the warning message and PermissionDenied.
C5_NonEditorCreatesNothing ==
    [][(/\ response'.request.view = "PartnerSuggestionView.post"
        /\ response'.request.form_is_valid
        /\ response'.request.user \notin Editors)
          => /\ suggestion_rows' = suggestion_rows
             /\ next_suggestion_id' = next_suggestion_id
             /\ response'.request.user # Anonymous
                  => /\ response'.outcome.result = PermissionDenied
                     /\ response'.outcome.messages = <<"WARNING">>]_vars

C5_Witness ==
    /\ response.request.view = "PartnerSuggestionView.post"
    /\ response.request.form_is_valid
    /\ response.request.user = "reader"
    /\ response.outcome.result = PermissionDenied
    /\ DOMAIN suggestion_rows # {}

ListedIds(listing) == {listing[i].id : i \in DOMAIN listing}

\* C8: a delete request by a coordinator for an existing suggestion removes
\* exactly that row: the listing of get_context_data no longer holds it and
\* still holds every other suggestion, unchanged.
C8_DeleteRemovesFromListing ==
    [][(/\ response'.request.view = "SuggestionDeleteView"
        /\ response'.request.user \in Coordinators
        /\ response'.request.pk \in DOMAIN suggestion_rows)
          => LET pk == response'.request.pk
             IN /\ response'.outcome.result = REDIRECT
                /\ ListedIds(all_suggestions(suggestion_rows)) = DOMAIN suggestion_rows
                /\ pk \notin ListedIds(all_suggestions(suggestion_rows'))
                /\ ListedIds(all_suggestions(suggestion_rows'))
                     = DOMAIN suggestion_rows \ {pk}
                /\ \A other \in DOMAIN suggestion_rows \ {pk} :
                      suggestion_rows'[other] = suggestion_rows[other]]_vars

\* A suggestion was deleted and another one is still in the table.
C8_Witness ==
    /\ response.request.view = "SuggestionDeleteView"
    /\ response.outcome.result = REDIRECT
    /\ response.request.pk \notin DOMAIN suggestion_rows
    /\ DOMAIN suggestion_rows # {}

====
